---- MODULE Spec2Model ----
(***************************************************************************)
(* hapmap2impute.py: conversion of per-chromosome HapMap genotype files    *)
(* into one IMPUTE file.  The model follows main(): the three loaders, the *)
(* opening of the output stream, one convertHapMapToImpute call per        *)
(* chromosome (header step, then one step per data line), and the close.   *)
(* Text is kept as text: lines are strings with their terminator, and the  *)
(* model tokenises and formats them the way the Python code does.          *)
(***************************************************************************)
EXTENDS Integers, Sequences, FiniteSets, TLC

(***************************************************************************)
(* Python string primitives used by the script                             *)
(***************************************************************************)

\* characters str.split() / str.rstrip() treat as whitespace
Whitespace == {" ", "\t", "\n", "\r"}

\* s[i] for a 1-based index
CharAt(s, i) == SubSeq(s, i, i)

\* s[:-1]
DropLast(s) == SubSeq(s, 1, Len(s) - 1)

\* sub in s
Contains(s, sub) ==
  \E i \in 0..(Len(s) - Len(sub)) : SubSeq(s, i + 1, i + Len(sub)) = sub

\* s.rstrip()
RECURSIVE RStrip(_)
RStrip(s) ==
  IF Len(s) > 0 /\ CharAt(s, Len(s)) \in Whitespace
  THEN RStrip(DropLast(s))
  ELSE s

\* s.split(): the maximal runs of non-whitespace characters, in order.
\* i is the next position, b the position where the token being read began
\* (0 between tokens).
RECURSIVE SplitFrom(_, _, _)
SplitFrom(s, i, b) ==
  IF i > Len(s)
  THEN IF b = 0 THEN <<>> ELSE <<SubSeq(s, b, Len(s))>>
  ELSE IF CharAt(s, i) \in Whitespace
       THEN IF b = 0
            THEN SplitFrom(s, i + 1, 0)
            ELSE <<SubSeq(s, b, i - 1)>> \o SplitFrom(s, i + 1, 0)
       ELSE SplitFrom(s, i + 1, IF b = 0 THEN i ELSE b)

Split(s) == SplitFrom(s, 1, 0)

\* s.split(sep) for a one-character separator: empty fields are kept.
\* b is the position where the field being read began.
RECURSIVE SplitSepFrom(_, _, _, _)
SplitSepFrom(s, sep, i, b) ==
  IF i > Len(s)
  THEN <<SubSeq(s, b, Len(s))>>
  ELSE IF CharAt(s, i) = sep
       THEN <<SubSeq(s, b, i - 1)>> \o SplitSepFrom(s, sep, i + 1, i + 1)
       ELSE SplitSepFrom(s, sep, i + 1, b)

SplitSep(s, sep) == SplitSepFrom(s, sep, 1, 1)

\* s.replace(old, new), old non-empty: every occurrence, left to right
RECURSIVE Replace(_, _, _)
Replace(s, old, new) ==
  IF Len(s) < Len(old)
  THEN s
  ELSE IF SubSeq(s, 1, Len(old)) = old
       THEN new \o Replace(SubSeq(s, Len(old) + 1, Len(s)), old, new)
       ELSE CharAt(s, 1) \o Replace(SubSeq(s, 2, Len(s)), old, new)

Digit(d) ==
  CASE d = 0 -> "0" [] d = 1 -> "1" [] d = 2 -> "2" [] d = 3 -> "3"
    [] d = 4 -> "4" [] d = 5 -> "5" [] d = 6 -> "6" [] d = 7 -> "7"
    [] d = 8 -> "8" [] d = 9 -> "9"

\* "%i" % n for n >= 0
RECURSIVE FormatInt(_)
FormatInt(n) ==
  IF n < 10 THEN Digit(n) ELSE FormatInt(n \div 10) \o Digit(n % 10)

(***************************************************************************)
(* Python list / dict primitives                                           *)
(***************************************************************************)

\* e in l, for a list l
InList(e, l) == \E k \in 1..Len(l) : l[k] = e

\* l[i] for a 0-based Python index i that is in range
At(l, i) == l[i + 1]

\* d.has_key(k)
HasKey(d, k) == k \in DOMAIN d

\* d[k] = v
Put(d, k, v) == [j \in (DOMAIN d) \cup {k} |-> IF j = k THEN v ELSE d[j]]

EmptyDict == [j \in {} |-> ""]

(***************************************************************************)
(* State                                                                   *)
(***************************************************************************)

VARIABLES
  inPattern,        \* -i: path pattern of the HapMap files
  lChrs,            \* -c: chromosome numbers, in the caller's order
  snpIgnoreFile,    \* -s: [path, lines]; path "" when the option is absent
  snpCoordFile,     \* -b: [path, lines]
  indsToKeepFile,   \* -n: [path, lines]
  hmFiles,          \* file name -> [exists, lines]: the HapMap files on disk
  pc,               \* position in main()
  lSnpsToIgnore,
  dSnpId2NewCoord,
  lIndsToKeep,
  outH,             \* "none" | "open" | "closed"
  out,              \* the lines written to outH so far
  isFirstFile,
  chrIdx,           \* position of the for loop of main() in lChrs (1-based)
  hmLine,           \* number of lines of the current HapMap file read so far
  lColIdxToKeep,
  err,              \* "" or the fatal error that ended the run
  src               \* history: for each line of out, <<chrIdx, line number>>

inputs == <<inPattern, lChrs, snpIgnoreFile, snpCoordFile, indsToKeepFile, hmFiles>>
loaded == <<lSnpsToIgnore, dSnpId2NewCoord, lIndsToKeep>>
vars == <<inputs, loaded, pc, outH, out, isFirstFile, chrIdx, hmLine,
          lColIdxToKeep, err, src>>

(***************************************************************************)
(* The loaders                                                             *)
(***************************************************************************)

\* the while loop shared by the two list loaders: each line without its last
\* character, appended unless already present
RECURSIVE ReadList(_, _)
ReadList(lines, acc) ==
  IF lines = <<>>
  THEN acc
  ELSE LET e == DropLast(Head(lines))
       IN  ReadList(Tail(lines), IF InList(e, acc) THEN acc ELSE Append(acc, e))

loadFileWithListOfSnpsToIgnore(f) ==
  IF f.path # "" THEN ReadList(f.lines, <<>>) ELSE <<>>

loadFileWithListOfIndsToKeep(f) ==
  IF f.path # "" THEN ReadList(f.lines, <<>>) ELSE <<>>

\* mutant: a repeated marker overwrites the earlier coordinate
RECURSIVE ReadCoords_Overwrite(_, _, _)
ReadCoords_Overwrite(lines, ignore, d) ==
  IF lines = <<>>
  THEN [err |-> "", d |-> d]
  ELSE LET tok == Split(DropLast(Head(lines)))
       IN  IF Len(tok) < 4
           THEN [err |-> "IndexError", d |-> d]
           ELSE IF InList(At(tok, 3), ignore)
                THEN ReadCoords_Overwrite(Tail(lines), ignore, d)
                ELSE ReadCoords_Overwrite(Tail(lines), ignore,
                                          Put(d, At(tok, 3), At(tok, 2)))

\* the while loop of getNewSnpCoordinates: the mapping, or the error that
\* ends the run
RECURSIVE ReadCoords(_, _, _)
ReadCoords(lines, ignore, d) ==
  IF lines = <<>>
  THEN [err |-> "", d |-> d]
  ELSE LET tok == Split(DropLast(Head(lines)))
       IN  IF Len(tok) < 4
           THEN [err |-> "IndexError", d |-> d]
           ELSE IF InList(At(tok, 3), ignore)
                THEN ReadCoords(Tail(lines), ignore, d)
                ELSE IF HasKey(d, At(tok, 3))
                     THEN [err |-> "redundant", d |-> d]
                     ELSE ReadCoords(Tail(lines), ignore,
                                     Put(d, At(tok, 3), At(tok, 2)))

getNewSnpCoordinates(f, ignore) ==
  IF f.path # ""
  THEN ReadCoords(f.lines, ignore, EmptyDict)
  ELSE [err |-> "", d |-> EmptyDict]

(***************************************************************************)
(* convertHapMapToImpute                                                   *)
(***************************************************************************)

HmFileName(pattern, chrNb) == Replace(pattern, "CHR", "chr" \o FormatInt(chrNb))

\* for i in range(i, len(lToks)): if lToks[i] in lIndsToKeep: append i
RECURSIVE ColIdxToKeep(_, _, _)
ColIdxToKeep(lToks, inds, i) ==
  IF i >= Len(lToks)
  THEN <<>>
  ELSE IF InList(At(lToks, i), inds)
       THEN <<i>> \o ColIdxToKeep(lToks, inds, i + 1)
       ELSE ColIdxToKeep(lToks, inds, i + 1)

\* mutant: the names are written in the order of the inclusion list
RECURSIVE NamesInListOrder(_, _, _)
NamesInListOrder(lToks, inds, txt) ==
  IF inds = <<>>
  THEN txt
  ELSE NamesInListOrder(lToks, Tail(inds),
         IF \E i \in 11..(Len(lToks) - 1) : At(lToks, i) = Head(inds)
         THEN txt \o " " \o Head(inds) ELSE txt)
HeaderTxt_ListOrder(lToks, keep, i, txt) == NamesInListOrder(lToks, lIndsToKeep, txt)

\* for i in range(i, len(lToks)): if i in lColIdxToKeep: txt += " %s" % lToks[i]
RECURSIVE HeaderTxt(_, _, _, _)
HeaderTxt(lToks, keep, i, txt) ==
  IF i >= Len(lToks)
  THEN txt
  ELSE HeaderTxt(lToks, keep, i + 1,
                 IF InList(i, keep) THEN txt \o " " \o At(lToks, i) ELSE txt)

\* mutant: the heterozygote test is a strict two-allele match
Dosage_StrictHet(call, a1, a2) ==
  IF call = a1 \o a1 THEN " 1 0 0"
  ELSE IF call = a1 \o a2 \/ call = a2 \o a1 THEN " 0 1 0"
  ELSE IF call = a2 \o a2 THEN " 0 0 1"
  ELSE " 0 0 0"

\* the if / elif chain on one genotype call
Dosage(call, a1, a2) ==
  IF call = a1 \o a1 THEN " 1 0 0"
  ELSE IF Contains(call, a1) /\ Contains(call, a2) THEN " 0 1 0"
  ELSE IF call = a2 \o a2 THEN " 0 0 1"
  ELSE " 0 0 0"

\* for i in range(i, len(lToks)): if i not in lColIdxToKeep: continue; ...
RECURSIVE DosageTxt(_, _, _, _, _, _)
DosageTxt(lToks, keep, a1, a2, i, txt) ==
  IF i >= Len(lToks)
  THEN txt
  ELSE DosageTxt(lToks, keep, a1, a2, i + 1,
                 IF InList(i, keep)
                 THEN txt \o Dosage(At(lToks, i), a1, a2)
                 ELSE txt)

\* mutant: the exclusion test is dropped
IsIgnored_Never(snpId, ignore) == FALSE

\* if snpId in lSnpsToIgnore: continue
IsIgnored(snpId, ignore) == InList(snpId, ignore)

\* mutant: the row's own coordinate is written whenever it has one
CoordOf_Input(lToks, d) ==
  IF Len(lToks) >= 4 THEN At(lToks, 3) ELSE d[At(lToks, 0)]

\* the coordinate written for a row that is not ignored
CoordOf(lToks, d) ==
  IF HasKey(d, At(lToks, 0)) THEN d[At(lToks, 0)] ELSE At(lToks, 3)

\* one pass of the while loop over the data lines:
\* kind "skip" (ignored SNP), "write" (txt is the line) or "error"
ConvertLine(line, chrNb, ignore, d, keep) ==
  LET lToks == Split(DropLast(line))
      none  == [kind |-> "error", txt |-> "", err |-> "IndexError"]
  IN  IF Len(lToks) < 1 THEN none
      ELSE IF IsIgnored(At(lToks, 0), ignore)
      THEN [kind |-> "skip", txt |-> "", err |-> ""]
      ELSE IF ~HasKey(d, At(lToks, 0)) /\ Len(lToks) < 4 THEN none
      ELSE IF Len(lToks) < 2 THEN none
      ELSE LET al == SplitSep(At(lToks, 1), "/")
           IN  IF Len(al) # 2
               THEN [kind |-> "error", txt |-> "", err |-> "ValueError"]
               ELSE [kind |-> "write",
                     txt  |-> DosageTxt(lToks, keep, al[1], al[2], 11,
                                "chr" \o FormatInt(chrNb) \o " " \o At(lToks, 0)
                                \o " " \o CoordOf(lToks, d)
                                \o " " \o al[1] \o " " \o al[2]),
                     err  |-> ""]

(***************************************************************************)
(* main(), step by step                                                    *)
(***************************************************************************)

\* an uncaught exception or sys.exit(1): main() is left at once.  outH.close()
\* is not run; whether the interpreter finalises an open stream while it
\* shuts down depends on the Python version, so both outcomes are possible.
Abort(e) ==
  /\ pc' = "failed"
  /\ err' = e
  /\ outH' \in (IF outH = "open" THEN {"open", "closed"} ELSE {outH})

\* mutant: the chromosomes are taken in ascending order
ChrAt_Sorted(k) ==
  LET S == {lChrs[j] : j \in 1..Len(lChrs)}
      below(c) == Cardinality({j \in 1..Len(lChrs) : lChrs[j] < c})
      upto(c) == Cardinality({j \in 1..Len(lChrs) : lChrs[j] <= c})
  IN  CHOOSE c \in S : below(c) < k /\ k <= upto(c)

\* for chrNb in lChrs: the chromosome of the k-th pass
ChrAt(k) == lChrs[k]

\* mutant: the flag is never reset
AfterFirstCall_Stale == isFirstFile

\* isFirstFile = False, after each call of convertHapMapToImpute
AfterFirstCall == FALSE

LoadSnpsToIgnore ==
  /\ pc = "loadIgnore"
  /\ lSnpsToIgnore' = loadFileWithListOfSnpsToIgnore(snpIgnoreFile)
  /\ pc' = "loadCoord"
  /\ UNCHANGED <<inputs, dSnpId2NewCoord, lIndsToKeep, outH, out, isFirstFile,
                 chrIdx, hmLine, lColIdxToKeep, err, src>>

LoadSnpCoordinates ==
  /\ pc = "loadCoord"
  /\ LET r == getNewSnpCoordinates(snpCoordFile, lSnpsToIgnore)
     IN  IF r.err # ""
         THEN Abort(r.err) /\ UNCHANGED dSnpId2NewCoord
         ELSE /\ dSnpId2NewCoord' = r.d
              /\ pc' = "loadInds"
              /\ UNCHANGED <<err, outH>>
  /\ UNCHANGED <<inputs, lSnpsToIgnore, lIndsToKeep, out, isFirstFile,
                 chrIdx, hmLine, lColIdxToKeep, src>>

LoadIndsToKeep ==
  /\ pc = "loadInds"
  /\ lIndsToKeep' = loadFileWithListOfIndsToKeep(indsToKeepFile)
  /\ pc' = "open"
  /\ UNCHANGED <<inputs, lSnpsToIgnore, dSnpId2NewCoord, outH, out, isFirstFile,
                 chrIdx, hmLine, lColIdxToKeep, err, src>>

\* outH = gzip.open(outFile, "w"); isFirstFile = True; the for loop starts
OpenOutput ==
  /\ pc = "open"
  /\ outH' = "open"
  /\ isFirstFile' = TRUE
  /\ chrIdx' = 1
  /\ pc' = "loop"
  /\ UNCHANGED <<inputs, loaded, out, hmLine, lColIdxToKeep, err, src>>

\* the call of convertHapMapToImpute for ChrAt(chrIdx), up to the header
ConvertHeader ==
  /\ pc = "loop"
  /\ chrIdx <= Len(lChrs)
  /\ LET f == hmFiles[HmFileName(inPattern, ChrAt(chrIdx))]
         line  == IF f.lines = <<>> THEN "" ELSE f.lines[1]
         lToks == Split(RStrip(line))
         keep  == ColIdxToKeep(lToks, lIndsToKeep, 11)
     IN  IF ~f.exists
         THEN Abort("IOError") /\ UNCHANGED <<out, src, hmLine, lColIdxToKeep>>
         ELSE /\ lColIdxToKeep' = keep
              /\ hmLine' = IF f.lines = <<>> THEN 0 ELSE 1
              /\ IF isFirstFile
                 THEN /\ out' = Append(out,
                                  HeaderTxt(lToks, keep, 11, "chr id coord a1 a2")
                                  \o "\n")
                      /\ src' = Append(src, <<chrIdx, 1>>)
                 ELSE UNCHANGED <<out, src>>
              /\ pc' = "rows"
              /\ UNCHANGED <<err, outH>>
  /\ UNCHANGED <<inputs, loaded, isFirstFile, chrIdx>>

\* one data line of the current file
ConvertRow ==
  /\ pc = "rows"
  /\ LET f == hmFiles[HmFileName(inPattern, ChrAt(chrIdx))]
     IN  /\ hmLine < Len(f.lines)
         /\ LET r == ConvertLine(f.lines[hmLine + 1], ChrAt(chrIdx),
                                 lSnpsToIgnore, dSnpId2NewCoord, lColIdxToKeep)
            IN  IF r.kind = "error"
                THEN Abort(r.err) /\ UNCHANGED <<out, src, hmLine>>
                ELSE /\ hmLine' = hmLine + 1
                     /\ IF r.kind = "write"
                        THEN /\ out' = Append(out, r.txt \o "\n")
                             /\ src' = Append(src, <<chrIdx, hmLine + 1>>)
                        ELSE UNCHANGED <<out, src>>
                     /\ UNCHANGED <<pc, err, outH>>
  /\ UNCHANGED <<inputs, loaded, isFirstFile, chrIdx, lColIdxToKeep>>

\* readline() returns "": hmH.close(), back in main: isFirstFile = False
ConvertEnd ==
  /\ pc = "rows"
  /\ hmLine >= Len(hmFiles[HmFileName(inPattern, ChrAt(chrIdx))].lines)
  /\ isFirstFile' = AfterFirstCall
  /\ chrIdx' = chrIdx + 1
  /\ pc' = "loop"
  /\ UNCHANGED <<inputs, loaded, outH, out, hmLine, lColIdxToKeep, err, src>>

\* the for loop is exhausted: outH.close()
CloseOutput ==
  /\ pc = "loop"
  /\ chrIdx > Len(lChrs)
  /\ outH' = "closed"
  /\ pc' = "done"
  /\ UNCHANGED <<inputs, loaded, out, isFirstFile, chrIdx, hmLine,
                 lColIdxToKeep, err, src>>

Next ==
  \/ LoadSnpsToIgnore
  \/ LoadSnpCoordinates
  \/ LoadIndsToKeep
  \/ OpenOutput
  \/ ConvertHeader
  \/ ConvertRow
  \/ ConvertEnd
  \/ CloseOutput

(***************************************************************************)
(* Inputs: the command line and the files it names                         *)
(***************************************************************************)

MaxChrs == 3        \* chromosome numbers given with -c
MaxRows == 2        \* data lines of a HapMap file
MaxLines == 2       \* lines of the -s, -b and -n files
MaxInds == 2        \* individual columns of a HapMap file
MaxAlleleLen == 1   \* characters of an allele code
MaxCallLen == 3     \* characters of a genotype call

SeqsUpTo(S, n) == UNION {[1..k -> S] : k \in 0..n}

RECURSIVE Join(_, _)
Join(toks, sep) ==
  IF toks = <<>> THEN ""
  ELSE IF Len(toks) = 1 THEN toks[1]
  ELSE toks[1] \o sep \o Join(Tail(toks), sep)

\* the strings over alphabet S of at most n characters
StrsUpTo(S, n) == {Join(q, "") : q \in SeqsUpTo(S, n)}

NoFile == [path |-> "", lines |-> <<>>]
TextFile(name, lines) == [path |-> name, lines |-> lines]
Missing == [exists |-> FALSE, lines |-> <<>>]
HmFile(lines) == [exists |-> TRUE, lines |-> lines]

\* a HapMap header line: the 11 fixed columns, then one column per individual
HmHeader(inds) ==
  Join(<<"rs#", "alleles", "chrom", "pos", "strand", "asm", "ctr",
         "prot", "assay", "panel", "QC">> \o inds, " ") \o "\n"

\* a HapMap data line
HmRow(id, alleles, pos, calls) ==
  Join(<<id, alleles, "c", pos, "+", "b", "c", "p", "a", "l", "Q">>
       \o calls, " ") \o "\n"

\* a line of the BED file of new coordinates: chrom, start, end, name
BedLine(id, end) == Join(<<"c", "0", end, id>>, "\t") \o "\n"

ChrNbs == {1, 2}
Patterns == {"g_CHR.gz", "g.gz"}
HmFileNames == {HmFileName(p, c) : p \in Patterns, c \in ChrNbs}

AllInds == TextFile("inds.txt", <<"NA1\n", "NA2\n">>)

\* the driver: chromosome lists, missing and malformed files.  With the
\* pattern "g.gz" every chromosome reads the same file.
DriverRows == {HmRow("rs1", "A/G", "100", <<"AA", "AG">>),
               HmRow("rs2", "C/T", "200", <<"TT", "NN">>)}
BadFile ==
  HmFile(<<HmHeader(<<"NA1", "NA2">>), HmRow("rs3", "A/G", "300", <<"GG", "AA">>),
           "rs4 A/G\n", HmRow("rs1", "A/G", "100", <<"AA", "AG">>)>>)
DriverFiles ==
  {Missing, HmFile(<<>>), BadFile}
  \cup {HmFile(<<HmHeader(<<"NA1", "NA2">>)>> \o rows) :
          rows \in SeqsUpTo(DriverRows, MaxRows)}
OtherFiles ==
  {Missing, BadFile,
   HmFile(<<HmHeader(<<"NA1", "NA2">>), HmRow("rs2", "C/T", "250", <<"CT", "CC">>),
            HmRow("rs5", "A/G", "500", <<"GG", "AA">>)>>)}

InitDriver ==
  /\ lChrs \in SeqsUpTo(ChrNbs, MaxChrs) \ {<<>>}
  /\ \E f \in DriverFiles :
       \/ /\ inPattern = "g.gz"
          /\ hmFiles = [n \in HmFileNames |-> IF n = "g.gz" THEN f ELSE Missing]
       \/ /\ inPattern = "g_CHR.gz"
          /\ \E g \in OtherFiles :
               /\ (\A k \in 1..Len(lChrs) : lChrs[k] # 2) => g = Missing
               /\ hmFiles = [n \in HmFileNames |->
                               IF n = "g_chr1.gz" THEN f
                               ELSE IF n = "g_chr2.gz" THEN g ELSE Missing]
  /\ snpIgnoreFile \in {NoFile, TextFile("snps.txt", <<"rs1\n">>)}
  /\ snpCoordFile = NoFile
  /\ indsToKeepFile = AllInds

\* the marker filters: exclusion list and new coordinates
MarkerFile1 ==
  HmFile(<<HmHeader(<<"NA1", "NA2">>),
           HmRow("rs1", "A/G", "100", <<"AA", "AG">>),
           HmRow("rs2", "C/T", "200", <<"TT", "NN">>),
           HmRow("rs3", "A/G", "300", <<"GG", "AA">>)>>)
MarkerFile2 ==
  HmFile(<<HmHeader(<<"NA1", "NA2">>),
           HmRow("rs2", "C/T", "250", <<"CT", "CC">>),
           "rs1 A/G\n">>)
IgnoreFiles ==
  {NoFile, TextFile("snps.txt", <<"rs1\n", "rs2">>)}
  \cup {TextFile("snps.txt", l) : l \in SeqsUpTo({"rs1\n", "rs2\n"}, MaxLines)}
CoordFiles ==
  {NoFile}
  \cup {TextFile("snps.bed.gz", l) :
          l \in SeqsUpTo({BedLine("rs1", "900"), BedLine("rs1", "901"),
                          BedLine("rs2", "900"), "c\t0\t900\n"}, MaxLines)}

InitMarkers ==
  /\ inPattern = "g_CHR.gz"
  /\ lChrs \in {<<1>>, <<2, 1>>}
  /\ hmFiles = [n \in HmFileNames |->
                  IF n = "g_chr1.gz" THEN MarkerFile1
                  ELSE IF n = "g_chr2.gz" /\ Len(lChrs) = 2 THEN MarkerFile2
                  ELSE Missing]
  /\ snpIgnoreFile \in IgnoreFiles
  /\ snpCoordFile \in CoordFiles
  /\ indsToKeepFile = AllInds

\* the individual filter: inclusion list, header columns, calls per row
ColumnFile2 ==
  HmFile(<<HmHeader(<<"NA2", "NA1">>), HmRow("rs2", "A/G", "200", <<"AG", "GG">>)>>)
Headers ==
  SeqsUpTo({"NA1", "NA2"}, MaxInds) \cup {<<"NA3", "NA2">>, <<"NA2", "NA3", "NA1">>}
RowCalls == <<"AA", "GG", "AG", "NN", "GA", "AA">>
IndsFiles ==
  {NoFile}
  \cup {TextFile("inds.txt", l) : l \in SeqsUpTo({"NA1\n", "NA2\n"}, MaxLines)}

InitColumns ==
  /\ inPattern = "g_CHR.gz"
  /\ lChrs \in {<<1>>, <<1, 2>>}
  /\ \E h \in Headers,
        w \in 0..(MaxInds + 1) :
       LET calls == SubSeq(RowCalls, 1, w) IN
       hmFiles = [n \in HmFileNames |->
                    IF n = "g_chr1.gz"
                    THEN HmFile(<<HmHeader(h), HmRow("rs1", "A/G", "100", calls)>>)
                    ELSE IF n = "g_chr2.gz" /\ Len(lChrs) = 2 THEN ColumnFile2
                    ELSE Missing]
  /\ snpIgnoreFile = NoFile
  /\ snpCoordFile = NoFile
  /\ indsToKeepFile \in IndsFiles

\* the dosage encoding: allele specifications and genotype calls
Alleles == StrsUpTo({"A", "G"}, MaxAlleleLen) \ {""}
AlleleSpecs == {a1 \o "/" \o a2 : a1 \in Alleles, a2 \in Alleles} \cup {"AG", "A/G/T"}
Calls == (StrsUpTo({"A", "G"}, MaxCallLen) \ {""}) \cup {"NN", "--"}

InitEncoding ==
  /\ inPattern = "g_CHR.gz"
  /\ lChrs = <<1>>
  /\ \E al \in AlleleSpecs, call \in Calls :
       hmFiles = [n \in HmFileNames |->
                    IF n = "g_chr1.gz"
                    THEN HmFile(<<HmHeader(<<"NA1">>), HmRow("rs1", al, "100", <<call>>)>>)
                    ELSE Missing]
  /\ snpIgnoreFile = NoFile
  /\ snpCoordFile = NoFile
  /\ indsToKeepFile = TextFile("inds.txt", <<"NA1\n">>)

\* the state when main() is entered, after setParamsFromCmdLine()
Init ==
  /\ InitDriver \/ InitMarkers \/ InitColumns \/ InitEncoding
  /\ pc = "loadIgnore"
  /\ lSnpsToIgnore = <<>>
  /\ dSnpId2NewCoord = EmptyDict
  /\ lIndsToKeep = <<>>
  /\ outH = "none"
  /\ out = <<>>
  /\ isFirstFile = TRUE
  /\ chrIdx = 0
  /\ hmLine = 0
  /\ lColIdxToKeep = <<>>
  /\ err = ""
  /\ src = <<>>

Spec == Init /\ [][Next]_vars

(***************************************************************************)
(* Reading the output and the inputs back                                  *)
(***************************************************************************)

\* the space-delimited fields of the k-th output line
OutFields(k) == SplitSep(DropLast(out[k]), " ")

\* the header line starts with the label "chr"; a data line with "chr<N>"
IsHeaderLine(k) == SubSeq(out[k], 1, 4) \in {"chr ", "chr\n"}
DataLines == {k \in 1..Len(out) : ~IsHeaderLine(k)}

\* the HapMap file read by the ci-th pass of the loop of main()
InFile(ci) == hmFiles[HmFileName(inPattern, lChrs[ci])]

\* the tokens of its header line and of its line ln
InHeader(ci) ==
  IF InFile(ci).lines = <<>> THEN <<>> ELSE Split(RStrip(InFile(ci).lines[1]))
InToks(ci, ln) == Split(DropLast(InFile(ci).lines[ln]))

\* the tokens of the input line the k-th output line was made from
SrcToks(k) == InToks(src[k][1], src[k][2])

RECURSIVE AscSeq(_)
AscSeq(S) ==
  IF S = {} THEN <<>>
  ELSE LET m == CHOOSE e \in S : \A y \in S : e <= y
       IN  <<m>> \o AscSeq(S \ {m})

IgnoreSet == {lSnpsToIgnore[k] : k \in 1..Len(lSnpsToIgnore)}
KeepSet == {lIndsToKeep[k] : k \in 1..Len(lIndsToKeep)}

\* 0-based indices of the individual columns of a header, in header order
IndCols(hdr) == AscSeq({i \in 11..(Len(hdr) - 1) : TRUE})
\* ... restricted to the individuals of the inclusion set
KeptCols(hdr) == AscSeq({i \in 11..(Len(hdr) - 1) : At(hdr, i) \in KeepSet})

\* the dosage triples of the k-th output line, each as " x y z"
Triples(k) ==
  LET f == OutFields(k)
  IN  [t \in 1..((Len(f) - 5) \div 3) |->
         " " \o f[3 + 3 * t] \o " " \o f[4 + 3 * t] \o " " \o f[5 + 3 * t]]

\* the data rows of the files converted so far that are in the exclusion set
ExcludedRows ==
  UNION {{<<ci, ln>> : ln \in {l \in 2..Len(InFile(ci).lines) :
                                 /\ InToks(ci, l) # <<>>
                                 /\ InToks(ci, l)[1] \in IgnoreSet}} :
         ci \in {c \in 1..Len(lChrs) : c < chrIdx}}

(***************************************************************************)
(* Claims                                                                  *)
(*                                                                         *)
(* The output is only appended to (ConvertHeader, ConvertRow), and every   *)
(* run ends in "done" or "failed": the lines of any state are lines of the *)
(* state its run ends in.  The claims that read a whole line back against  *)
(* its input row are stated on the output a run leaves behind.             *)
(***************************************************************************)

\* the run has ended, cleanly or not
Ended == pc \in {"done", "failed"}

\* the output is never rewritten
OutputOnlyGrows ==
  [][\/ out' = out /\ src' = src
     \/ /\ Len(out') = Len(out) + 1 /\ SubSeq(out', 1, Len(out)) = out
        /\ Len(src') = Len(src) + 1 /\ SubSeq(src', 1, Len(src)) = src]_vars

\* C1: a run that completes has written exactly one header line, and that
\* line is the first line of the output.
C1_OneHeaderFirst ==
  pc = "done" =>
    /\ Len(out) >= 1
    /\ IsHeaderLine(1)
    /\ \A k \in 2..Len(out) : ~IsHeaderLine(k)

C1_Witness ==
  /\ pc = "done"
  /\ Len(lChrs) >= 3
  /\ Cardinality(DataLines) >= 3
  /\ \E k \in DataLines : src[k][1] = 3

\* C4: no data line of the output carries a marker of the exclusion set,
\* whatever chromosome it came from.
C4_NoExcludedRow ==
  \A k \in DataLines : OutFields(k)[2] \notin IgnoreSet

C4_Witness ==
  /\ pc = "done"
  /\ Len(lChrs) >= 2
  /\ \E a \in ExcludedRows, b \in ExcludedRows : a[1] # b[1]
  /\ DataLines # {}

\* C5: the coordinate of a data line is the mapped value when the marker is a
\* key of the mapping, and token 3 of the input row otherwise.
C5_Coordinate ==
  Ended =>
  \A k \in DataLines :
    LET f  == OutFields(k)
        id == f[2]
    IN  /\ id \in DOMAIN dSnpId2NewCoord => f[3] = dSnpId2NewCoord[id]
        /\ id \notin DOMAIN dSnpId2NewCoord => f[3] = SrcToks(k)[4]

C5_Witness ==
  /\ pc = "done"
  /\ \E k \in DataLines :
       /\ OutFields(k)[2] \in DOMAIN dSnpId2NewCoord
       /\ Len(SrcToks(k)) >= 4
       /\ OutFields(k)[3] # SrcToks(k)[4]
  /\ \E k \in DataLines : OutFields(k)[2] \notin DOMAIN dSnpId2NewCoord

\* the names of the individuals listed by the output header
OutNames == SubSeq(OutFields(1), 6, Len(OutFields(1)))

\* for each pass of the loop, the columns of its file's header that are to
\* be retained
KeptOfPass == [ci \in 1..Len(lChrs) |-> KeptCols(InHeader(ci))]

\* those of the columns cols that input row toks has
RowCols(cols, toks) ==
  LET present(i) == i < Len(toks)
  IN  SelectSeq(cols, present)

\* a1 and a2 of an input row that was written
RowAlleles(toks) == SplitSep(toks[2], "/")

\* C2: without an inclusion file every individual column of the input header
\* is retained: the output header names them all, in header order, and every
\* data row has one dosage triple per individual.
C2_KeepAllWithoutFile ==
  (indsToKeepFile.path = "" /\ Len(out) >= 1) =>
    /\ LET hdr  == InHeader(1)
           cols == IndCols(hdr)
       IN  OutNames = [j \in 1..Len(cols) |-> At(hdr, cols[j])]
    /\ \A k \in DataLines :
         Len(Triples(k)) = Len(IndCols(InHeader(src[k][1])))

\* C3: with an inclusion file, the output header names exactly the individual
\* columns of the input header that are in the inclusion set, in header order,
\* and the same columns, in the same order, give the calls encoded in a row.
C3_InclusionOrder ==
  (Ended /\ indsToKeepFile.path # "") =>
    /\ Len(out) >= 1 =>
         LET hdr  == InHeader(1)
             cols == KeptCols(hdr)
         IN  OutNames = [j \in 1..Len(cols) |-> At(hdr, cols[j])]
    /\ LET kept == KeptOfPass IN
       \A k \in DataLines :
         LET toks == SrcToks(k)
             cols == RowCols(kept[src[k][1]], toks)
             al   == RowAlleles(toks)
             a1   == al[1]
             a2   == al[2]
         IN  Triples(k) = [j \in 1..Len(cols) |-> Dosage(At(toks, cols[j]), a1, a2)]

C3_Witness ==
  /\ pc = "done"
  /\ lIndsToKeep = <<"NA2", "NA1">>
  /\ OutNames = <<"NA1", "NA2">>
  /\ \E k \in DataLines : Triples(k) = <<" 1 0 0", " 0 0 1">>

\* the triple the chain of tests gives for one call
ChainTriple(t, call, a1, a2) ==
  LET homA1 == call = a1 \o a1
      het   == Contains(call, a1) /\ Contains(call, a2)
      homA2 == call = a2 \o a2
  IN  /\ homA1 => t = " 1 0 0"
      /\ (~homA1 /\ het) => t = " 0 1 0"
      /\ (~homA1 /\ ~het /\ homA2) => t = " 0 0 1"
      /\ (~homA1 /\ ~het /\ ~homA2) => t = " 0 0 0"
      /\ t \in {" 1 0 0", " 0 1 0", " 0 0 1", " 0 0 0"}

\* C6 as stated: each triple follows the chain of tests, has exactly one 1 or
\* none, and a call equal to a2+a2 yields (0,0,1).
C6_DosageAsStated ==
  Ended =>
  LET kept == KeptOfPass IN
  \A k \in DataLines :
    LET toks == SrcToks(k)
        cols == RowCols(kept[src[k][1]], toks)
        al   == RowAlleles(toks)
        a1   == al[1]
        a2   == al[2]
        tr   == Triples(k)
    IN  /\ Len(tr) = Len(cols)
        /\ \A j \in 1..Len(cols) :
             LET call == At(toks, cols[j])
             IN  /\ ChainTriple(tr[j], call, a1, a2)
                 /\ call = a2 \o a2 => tr[j] = " 0 0 1"

\* C6 amended: each triple follows the chain of tests, has exactly one 1 or
\* none, and a call equal to a2+a2 that does not contain a1 yields (0,0,1).
C6_Dosage ==
  Ended =>
  LET kept == KeptOfPass IN
  \A k \in DataLines :
    LET toks == SrcToks(k)
        cols == RowCols(kept[src[k][1]], toks)
        al   == RowAlleles(toks)
        a1   == al[1]
        a2   == al[2]
        tr   == Triples(k)
    IN  /\ Len(tr) = Len(cols)
        /\ \A j \in 1..Len(cols) :
             LET call == At(toks, cols[j])
             IN  /\ ChainTriple(tr[j], call, a1, a2)
                 /\ (call = a2 \o a2 /\ ~Contains(call, a1)) => tr[j] = " 0 0 1"

C6_Witness ==
  /\ pc = "done"
  /\ {" 1 0 0", " 0 1 0", " 0 0 1", " 0 0 0"}
       \subseteq UNION {{Triples(k)[j] : j \in 1..Len(Triples(k))} : k \in DataLines}

\* the tokens of line i of the file of new coordinates
CoordToks(i) == Split(DropLast(snpCoordFile.lines[i]))

\* the pairs of lines of that file that carry the same marker as field 3
DupPairs ==
  {p \in (1..Len(snpCoordFile.lines)) \X (1..Len(snpCoordFile.lines)) :
     /\ p[1] < p[2]
     /\ Len(CoordToks(p[1])) >= 4
     /\ Len(CoordToks(p[2])) >= 4
     /\ At(CoordToks(p[1]), 3) = At(CoordToks(p[2]), 3)}

Loaded == pc \notin {"loadIgnore", "loadCoord"}
HaltedOnDuplicate ==
  pc = "failed" /\ err = "redundant" /\ outH = "none" /\ out = <<>>

\* C7 as stated: a file of new coordinates with the same marker on two lines
\* ends the run with the duplicate-key error, before the output is opened.
C7_DuplicateAsStated ==
  (Loaded /\ snpCoordFile.path # "" /\ DupPairs # {}) => HaltedOnDuplicate

\* the repeated markers the loader gets to see: not in the exclusion set, and
\* no line up to the second occurrence has fewer than four fields
SeenDupPairs ==
  {p \in DupPairs :
     /\ At(CoordToks(p[1]), 3) \notin IgnoreSet
     /\ \A l \in 1..p[2] : Len(CoordToks(l)) >= 4}

\* C7 amended: the same marker, not in the exclusion set, on two lines of the
\* file of new coordinates, no line up to the second of them being short of
\* four fields, ends the run with the duplicate-key error before the output
\* is opened.
C7_Duplicate ==
  (Loaded /\ snpCoordFile.path # "" /\ SeenDupPairs # {}) => HaltedOnDuplicate

C7_Witness ==
  /\ SeenDupPairs # {}
  /\ lSnpsToIgnore # <<>>
  /\ HaltedOnDuplicate

\* the data rows of pass ci, from line ln on, that are not excluded
RECURSIVE KeptRowsFrom(_, _)
KeptRowsFrom(ci, ln) ==
  IF ln > Len(InFile(ci).lines)
  THEN <<>>
  ELSE (IF InToks(ci, ln)[1] \in IgnoreSet THEN <<>> ELSE << <<ci, ln>> >>)
       \o KeptRowsFrom(ci, ln + 1)

\* ... of the passes ci, ci + 1, ..., in the order of the chromosome list
RECURSIVE KeptRowsOfPasses(_)
KeptRowsOfPasses(ci) ==
  IF ci > Len(lChrs) THEN <<>>
  ELSE KeptRowsFrom(ci, 2) \o KeptRowsOfPasses(ci + 1)

\* C8: after the header, a completed run has written one line per input row
\* that is not excluded, by position of the chromosome in the list given by
\* the caller and then by row order in that chromosome's file.
C8_RowOrder ==
  pc = "done" =>
    LET rows == KeptRowsOfPasses(1)
    IN  /\ Len(out) = 1 + Len(rows)
        /\ \A j \in 1..Len(rows) :
             LET f == OutFields(j + 1)
             IN  /\ src[j + 1] = rows[j]
                 /\ f[1] = "chr" \o FormatInt(lChrs[rows[j][1]])
                 /\ f[2] = InToks(rows[j][1], rows[j][2])[1]

C8_Witness ==
  /\ pc = "done"
  /\ Len(lChrs) >= 2
  /\ lChrs[1] > lChrs[2]
  /\ ExcludedRows # {}
  /\ \E k \in DataLines : src[k][1] = 1
  /\ \E k \in DataLines, m \in DataLines :
       src[k][1] = 2 /\ src[m][1] = 2 /\ OutFields(k)[2] # OutFields(m)[2]

\* C9: every data row has 5 leading fields and 3 dosage values per individual
\* named in the output header.
C9_RowWidth ==
  \A k \in DataLines : Len(OutFields(k)) = 5 + 3 * Len(OutNames)

\* C10: in every terminal state of the run, clean or failed, an output stream
\* that was opened has been closed.
C10_ClosedAtEnd ==
  (pc \in {"done", "failed"} /\ outH # "none") => outH = "closed"

====
